---- MODULE Spec2Model ----
(***************************************************************************)
(* Model of td::Global (td/telegram/Global.cpp): the process-wide context  *)
(* with its server/dns time-difference slots, the throttled persistence of *)
(* the system time, init and the two shutdown operations, the scheduler    *)
(* ids, the location access-hash cache and the webfile data-center id.     *)
(*                                                                         *)
(* Numbers: the code's doubles (seconds) are modelled by integers; the     *)
(* model therefore says nothing about rounding or NaN of the offsets.      *)
(* get_location_key is computed in fixed point at whole-degree angles.     *)
(* Strings of the key-value store are modelled by their length and, for    *)
(* the 8-byte encoding of a double, the value they decode to.              *)
(***************************************************************************)
EXTENDS Integers, Sequences, FiniteSets, TLC

\* ------------------------------------------------------------------ bounds
\* Largest reading of the monotonic clock (Time::now) the model explores.
MaxTime == 12
\* Largest candidate offset passed to the update operations.
MaxCand == 1
\* Smallest candidate offset passed to the update operations is -MinCandNeg.
MinCandNeg == 1
\* The system clock runs either level with the monotonic clock or this far
\* ahead of it.
MaxSkew == 3

\* Largest scheduler count init is run with.
MaxSched == 1
\* Largest scheduler count init is run with where the scheduler ids it assigns
\* are examined.
MaxSchedulers == 5

\* Largest access hash passed to add_location_access_hash.
MaxHash == 2

\* --------------------------------------------------------- program constants
\* Global.cpp:124  system_time_saved_at_ + 10 < t
Throttle == 10
\* Global.h: std::atomic<double> system_time_saved_at_{-1e10}: a time so far in
\* the past that the first save_system_time always writes.
SavedAtInit == -100

\* ------------------------------------------------------------- environment
\* Steps by which time advances: half a throttle period, and just over half.
TickSteps == {Throttle \div 2, Throttle \div 2 + 1}
\* Candidate offsets: the smallest, zero and the largest.
Cands == {0 - MinCandNeg, 0, MaxCand}
\* The schedulers whose actors call into the context concurrently.
Scheds == {1, 2}
ParamValues == {"default", "custom"}
Roles == {"connection_creator_", "temp_auth_key_watchdog_", "net_query_dispatcher_",
          "mtproto_header_", "state_manager_"}
Keys == {"server_time_difference", "system_time"}

\* ------------------------------------------------------------------ strings
\* The empty string: what get(key) returns for an absent key.
EmptyStr == [len |-> 0, val |-> 0]
\* A non-empty string that is not the encoding of a double.
MalformedStr == [len |-> 3, val |-> 0]
\* serialize(double): the 8 bytes of the value.
serialize(d) == [len |-> 8, val |-> d]
\* unserialize(double &, str) succeeds iff the string holds exactly 8 bytes.
unserialize_ok(s) == s.len = 8
unserialize_val(s) == s.val

VARIABLES
  proc,                                  \* "running" | "aborted"
  parameters_,
  td_db_,                                \* TRUE: td_db_ holds a database
  dbOpen,                                \* the database facade has not been closed
  cbPending,                             \* "none", or the close ("close" | "destroy") whose on_finished the facade holds
  cbObs,                                 \* what on_finished saw when it was signalled
  pmc,                                   \* the binlog key-value store: key -> string
  server_time_difference_,
  server_time_difference_was_updated_,
  dns_time_difference_,
  dns_time_difference_was_updated_,
  system_time_saved_at_,
  gc_scheduler_id_,
  slow_net_scheduler_id_,
  actors,                                \* role -> 0 (empty) or an actor id
  now,                                   \* Time::now()
  sys,                                   \* Clocks::system()
  last,                                  \* the operation that ran last and what it returned
  srvMax,                                \* <<largest candidate of update_server_time_difference since init>>
  trig,                                  \* the last accepted update and the one before: see Triggered
  writes,                                \* Time::now() at the last two "system_time" writes
  pc,                                    \* scheduler -> position in update_server_time_difference
  loc,                                   \* scheduler -> its live locals: see NoLocals
  location_access_hashes_,               \* geocell key -> access hash, for the keys that have an entry
  shared_config_,                        \* <<>> (null), or <<options>> of the ConfigShared held
  saved                                  \* <<>>, or the last accepted update_server_time_difference: see Saved

vars == <<proc, parameters_, td_db_, dbOpen, cbPending, cbObs, pmc,
          server_time_difference_, server_time_difference_was_updated_,
          dns_time_difference_, dns_time_difference_was_updated_,
          system_time_saved_at_, gc_scheduler_id_, slow_net_scheduler_id_, actors,
          now, sys, last, srvMax, trig, writes, pc, loc,
          location_access_hashes_, shared_config_, saved>>

progVars == <<parameters_, td_db_, dbOpen, cbPending, cbObs, pmc,
              server_time_difference_, server_time_difference_was_updated_,
              dns_time_difference_, dns_time_difference_was_updated_,
              system_time_saved_at_, gc_scheduler_id_, slow_net_scheduler_id_, actors>>
timeVars == <<server_time_difference_, server_time_difference_was_updated_,
              dns_time_difference_, dns_time_difference_was_updated_>>
dbVars == <<td_db_, dbOpen, cbPending, cbObs>>
schedVars == <<gc_scheduler_id_, slow_net_scheduler_id_>>
clockVars == <<now, sys>>
concVars == <<pc, loc>>
extVars == <<location_access_hashes_, shared_config_>>

NoObs == [seen |-> FALSE, parameters |-> "default", actors |-> [r \in Roles |-> 0]]
Max2(a, b) == IF a < b THEN b ELSE a
\* Faulty variant: no clamping, the first argument is returned.
Min2_mut(a, b) == a

Min2(a, b) == IF b < a THEN b ELSE a
\* An operation, how it ended ("" when that is not recorded) and the number it
\* returned (0 when it returns none).
Did(op, res, val) == [op |-> op, res |-> res, val |-> val]
\* An accepted update at monotonic time `at`: whether it wrote "system_time", and,
\* when the accepted update before it was at most Throttle earlier (near), whether
\* that one wrote.
Triggered(at, wrote, prev) ==
  [at |-> at, wrote |-> wrote,
   near |-> prev # <<>> /\ at - prev[1].at <= Throttle,
   prevWrote |-> prev # <<>> /\ at - prev[1].at <= Throttle /\ prev[1].wrote]
MaxSeen(m, v) == IF m = <<>> THEN <<v>> ELSE <<Max2(m[1], v)>>
Last2(s) == IF Len(s) <= 2 THEN s ELSE SubSeq(s, Len(s) - 1, Len(s))
\* An accepted update_server_time_difference(d): the candidate, system clock
\* minus monotonic clock at that moment, and whether the system clock has been
\* set backwards since.
Saved(d, skew) == [d |-> d, skew |-> skew, back |-> FALSE]
Jumped(sv, backwards) ==
  IF sv = <<>> THEN sv ELSE <<[sv[1] EXCEPT !.back = sv[1].back \/ backwards]>>

\* The locals of a call in progress: the parameter diff, what Time::now() (t)
\* and Clocks::system() (s) returned, and save_diff of line 115.  A local that
\* the rest of the call does not read is held as 0.
NoLocals == [diff |-> 0, t |-> 0, s |-> 0, save_diff |-> 0]

\* --------------------------------------------------------------- initial state
\* The stores a process may find on disk: left by earlier runs, or damaged.
InitStores ==
  { [k \in Keys |-> IF k = "server_time_difference" THEN a ELSE b] :
      a \in {EmptyStr, MalformedStr, serialize(0 - 3)},
      b \in {EmptyStr, MalformedStr, serialize(MaxSkew - 2), serialize(MaxSkew + 2)} }

Init ==
  /\ proc = "running"
  /\ parameters_ = "default"
  /\ td_db_ = FALSE
  /\ dbOpen = FALSE
  /\ cbPending = "none"
  /\ cbObs = NoObs
  /\ pmc \in InitStores
  /\ server_time_difference_ = 0
  /\ server_time_difference_was_updated_ = FALSE
  /\ dns_time_difference_ = 0
  /\ dns_time_difference_was_updated_ = FALSE
  /\ system_time_saved_at_ = SavedAtInit
  /\ gc_scheduler_id_ = 0
  /\ slow_net_scheduler_id_ = 0
  /\ actors = [r \in Roles |-> 0]
  /\ now = 0
  /\ sys = MaxSkew
  /\ last = Did("none", "", 0)
  /\ srvMax = <<>>
  /\ trig = <<>>
  /\ writes = <<>>
  /\ pc = [p \in Scheds |-> "idle"]
  /\ loc = [p \in Scheds |-> NoLocals]
  /\ location_access_hashes_ = <<>>
  /\ shared_config_ = <<>>
  /\ saved = <<>>

\* ------------------------------------------------------------------- clocks
\* Time passes: both clocks advance by the same amount.
Tick ==
  /\ proc = "running"
  /\ \E d \in TickSteps :
       /\ now + d <= MaxTime
       /\ now' = now + d
       /\ sys' = sys + d
  /\ last' = Did("env", "", 0)
  /\ UNCHANGED <<proc, progVars, srvMax, trig, saved, writes, concVars, extVars>>

\* The system clock is set (NTP, the user), backwards or forwards: the monotonic
\* clock is not affected.
ClockJump ==
  /\ proc = "running"
  /\ \E k \in {0, MaxSkew} :
       /\ now + k # sys
       /\ sys' = now + k
       /\ saved' = Jumped(saved, now + k < sys)
  /\ last' = Did("env", "", 0)
  /\ UNCHANGED <<proc, progVars, now, srvMax, trig, writes, concVars, extVars>>

\* ------------------------------------------------------------ Global::init
\* Global.cpp:76  default_time_difference = system_time - Time::now()
default_time_difference == sys - now

\* Global.cpp:82,88  unserialize(...).ensure(): the process is aborted when a
\* string that is read does not decode.  The system_time string is decoded
\* only when the server_time_difference string is not empty.
init_ensure_fails(save_diff_str, save_system_time_str) ==
  /\ save_diff_str # EmptyStr
  /\ \/ ~unserialize_ok(save_diff_str)
     \/ /\ save_system_time_str # EmptyStr
        /\ ~unserialize_ok(save_system_time_str)

\* Faulty variant: an absent key counts as a system time later than any clock
\* reading.
saved_system_time_mut(save_system_time_str) ==
  IF save_system_time_str = EmptyStr
    THEN MaxTime + MaxSkew + Throttle
    ELSE unserialize_val(save_system_time_str)

\* Global.cpp:84-89  the saved system time, 0 when the key is absent
saved_system_time(save_system_time_str) ==
  IF save_system_time_str = EmptyStr THEN 0 ELSE unserialize_val(save_system_time_str)

\* Global.cpp:91-97  the offset that is loaded, with the backwards-time fix
\* Faulty variant: the backwards-time fix is left out.
load_diff_mut(save_diff, save_system_time, system_time, dflt) ==
  save_diff + dflt

load_diff(save_diff, save_system_time, system_time, dflt) ==
  LET diff == save_diff + dflt
  IN  IF save_system_time > system_time
        THEN diff + (save_system_time - system_time)
        ELSE diff

\* Global.cpp:77-101  the server offset init stores
init_server_time_difference(save_diff_str, save_system_time_str, system_time, dflt) ==
  IF save_diff_str = EmptyStr
    THEN dflt
    ELSE load_diff(unserialize_val(save_diff_str),
                   saved_system_time(save_system_time_str), system_time, dflt)

\* Global.cpp:64-106.  A failed ensure() ends the process before anything is
\* returned; the only return statement is line 105, Status::OK().  init is not
\* run while a close of the previous database is still to be completed.
init(parameters, sched_id, sched_count) ==
  /\ proc = "running"
  /\ cbPending = "none"
  /\ LET save_diff_str == pmc["server_time_difference"]
         save_system_time_str == pmc["system_time"]
     IN  IF init_ensure_fails(save_diff_str, save_system_time_str)
           THEN /\ proc' = "aborted"
                /\ last' = Did("init", "aborted", 0)
                /\ UNCHANGED <<progVars, srvMax>>
           ELSE /\ parameters_' = parameters
                /\ gc_scheduler_id_' = Min2(sched_id + 2, sched_count - 1)
                /\ slow_net_scheduler_id_' = Min2(sched_id + 3, sched_count - 1)
                /\ td_db_' = TRUE
                /\ dbOpen' = TRUE
                /\ server_time_difference_' =
                     init_server_time_difference(save_diff_str, save_system_time_str,
                                                 sys, default_time_difference)
                /\ server_time_difference_was_updated_' = FALSE
                /\ dns_time_difference_' = default_time_difference
                /\ dns_time_difference_was_updated_' = FALSE
                /\ last' = Did("init", "ok", 0)
                /\ srvMax' = <<>>
                /\ cbObs' = NoObs
                /\ UNCHANGED <<proc, cbPending, pmc, system_time_saved_at_, actors>>
  /\ UNCHANGED <<clockVars, trig, saved, writes, concVars, extVars>>

\* ------------------------------------- Global::update_server_time_difference
\* Global.cpp:109  the candidate is taken
\* Faulty variants: only the first candidate is taken; every candidate is taken.
accepts_mut_first(was_updated, cur, diff) == ~was_updated
accepts_mut_always(was_updated, cur, diff) == TRUE

accepts(was_updated, cur, diff) == ~was_updated \/ cur < diff

\* Faulty variant: the candidate is persisted as it is.
save_diff_of_mut(diff, t, s) == diff

\* Global.cpp:115  save_diff = diff + Time::now() - Clocks::system(), t and s
\* being what the two clocks returned
save_diff_of(diff, t, s) == diff + t - s

\* Global.cpp:124  the throttle of save_system_time
\* Faulty variant: the 10 seconds are left out.
should_save_mut(saved_at, t) == saved_at < t

should_save(saved_at, t) == saved_at + Throttle < t

\* Global.cpp:108-130, save_system_time included.  An accepted candidate is
\* persisted through td_db(): with no database the call ends the process, and
\* it is not followed into a database that has been closed.
update_server_time_difference(diff) ==
  /\ proc = "running"
  /\ IF accepts(server_time_difference_was_updated_, server_time_difference_, diff)
       THEN IF ~td_db_
              THEN \* td_db() is null: line 117 dereferences it
                   /\ proc' = "aborted"
                   /\ last' = Did("update_server", "aborted", 0)
                   /\ UNCHANGED <<progVars, srvMax, trig, saved, writes>>
              ELSE /\ dbOpen
                   /\ server_time_difference_' = diff
                   /\ server_time_difference_was_updated_' = TRUE
                   /\ LET t == now
                          w == should_save(system_time_saved_at_, t)
                          pmc1 == [pmc EXCEPT !["server_time_difference"] =
                                                 serialize(save_diff_of(diff, now, sys))]
                      IN  /\ pmc' = IF w THEN [pmc1 EXCEPT !["system_time"] = serialize(sys)]
                                         ELSE pmc1
                          /\ system_time_saved_at_' = IF w THEN t ELSE system_time_saved_at_
                          /\ trig' = <<Triggered(t, w, trig)>>
                          /\ saved' = <<Saved(diff, sys - t)>>
                          /\ writes' = IF w THEN Last2(Append(writes, t)) ELSE writes
                   /\ last' = Did("update_server", "accepted", 0)
                   /\ srvMax' = MaxSeen(srvMax, diff)
                   /\ UNCHANGED <<proc, parameters_, dbVars, dns_time_difference_,
                                  dns_time_difference_was_updated_, schedVars, actors>>
       ELSE /\ last' = Did("update_server", "rejected", 0)
            /\ srvMax' = MaxSeen(srvMax, diff)
            /\ UNCHANGED <<proc, progVars, trig, saved, writes>>
  /\ UNCHANGED <<clockVars, concVars, extVars>>

\* ------------------------------------------------- Global::save_system_time
\* Global.cpp:122-130, called on its own.  Inside the throttle period it
\* returns at once; otherwise it stores the time and writes "system_time"
\* through td_db(): with no database the call ends the process, and it is not
\* followed into a database that has been closed.
save_system_time ==
  /\ proc = "running"
  /\ LET t == now
     IN  IF should_save(system_time_saved_at_, t)
           THEN IF ~td_db_
                  THEN /\ proc' = "aborted"
                       /\ last' = Did("save_system_time", "aborted", 0)
                       /\ UNCHANGED <<progVars, writes>>
                  ELSE /\ dbOpen
                       /\ system_time_saved_at_' = t
                       /\ pmc' = [pmc EXCEPT !["system_time"] = serialize(sys)]
                       /\ writes' = Last2(Append(writes, t))
                       /\ last' = Did("save_system_time", "written", 0)
                       /\ UNCHANGED <<proc, parameters_, dbVars, timeVars, schedVars, actors>>
           ELSE /\ last' = Did("save_system_time", "throttled", 0)
                /\ UNCHANGED <<proc, progVars, writes>>
  /\ UNCHANGED <<clockVars, srvMax, trig, saved, concVars, extVars>>

\* ---------------------------------------- Global::update_dns_time_difference
\* Faulty variant: the dns offset only ever grows, like the server offset.
update_dns_time_difference_mut(diff) ==
  /\ proc = "running"
  /\ last' = Did("update_dns", "", 0)
  /\ dns_time_difference_' = Max2(dns_time_difference_, diff)
  /\ dns_time_difference_was_updated_' = TRUE
  /\ UNCHANGED <<proc, parameters_, dbVars, pmc, server_time_difference_,
                 server_time_difference_was_updated_, system_time_saved_at_, schedVars,
                 actors, clockVars, srvMax, trig, saved, writes, concVars, extVars>>

update_dns_time_difference(diff) ==
  /\ proc = "running"
  /\ last' = Did("update_dns", "", 0)
  /\ dns_time_difference_' = diff
  /\ dns_time_difference_was_updated_' = TRUE
  /\ UNCHANGED <<proc, parameters_, dbVars, pmc, server_time_difference_,
                 server_time_difference_was_updated_, system_time_saved_at_, schedVars,
                 actors, clockVars, srvMax, trig, saved, writes, concVars, extVars>>

\* ------------------------------------------- Global::get_dns_time_difference
\* Faulty variant: the smaller offset is returned when both slots are updated.
get_dns_time_difference_mut ==
  LET dns_flag == dns_time_difference_was_updated_
      dns_diff == dns_time_difference_
      server_flag == server_time_difference_was_updated_
      server_diff == server_time_difference_
  IN  IF dns_flag # server_flag
        THEN (IF dns_flag THEN dns_diff ELSE server_diff)
        ELSE IF dns_flag
               THEN Min2(dns_diff, server_diff)
               ELSE IF td_db_ THEN server_diff ELSE sys - now

get_dns_time_difference ==
  LET dns_flag == dns_time_difference_was_updated_
      dns_diff == dns_time_difference_
      server_flag == server_time_difference_was_updated_
      server_diff == server_time_difference_
  IN  IF dns_flag # server_flag
        THEN (IF dns_flag THEN dns_diff ELSE server_diff)
        ELSE IF dns_flag
               THEN Max2(dns_diff, server_diff)
               ELSE IF td_db_ THEN server_diff ELSE sys - now

GetDnsTimeDifference ==
  /\ proc = "running"
  /\ last' = Did("get", "", get_dns_time_difference)
  /\ UNCHANGED <<proc, progVars, clockVars, srvMax, trig, saved, writes, concVars, extVars>>

\* ------------------------------------------------------------ ActorRegistry
\* Global.cpp:43-62, 177-179: a setter moves the given owner into its slot; the
\* getter of a slot returns what the slot holds (0: an empty id).
set_actor(role, actor) ==
  /\ proc = "running"
  /\ actors' = [actors EXCEPT ![role] = actor]
  /\ last' = Did("set", "", 0)
  /\ UNCHANGED <<proc, parameters_, dbVars, pmc, timeVars, system_time_saved_at_,
                 schedVars, clockVars, srvMax, trig, saved, writes, concVars, extVars>>

set_connection_creator(actor) == set_actor("connection_creator_", actor)
set_temp_auth_key_watchdog(actor) == set_actor("temp_auth_key_watchdog_", actor)
set_mtproto_header(actor) == set_actor("mtproto_header_", actor)
set_net_query_dispatcher(actor) == set_actor("net_query_dispatcher_", actor)
set_state_manager(actor) == set_actor("state_manager_", actor)

connection_creator == actors["connection_creator_"]
temp_auth_key_watchdog == actors["temp_auth_key_watchdog_"]
net_query_dispatcher == actors["net_query_dispatcher_"]
mtproto_header == actors["mtproto_header_"]
state_manager == actors["state_manager_"]

\* --------------------------------- Global::close_all, close_and_destroy_all
\* What on_finished sees of the context at the moment it is signalled.
Observe(params, acts) == [seen |-> TRUE, parameters |-> params, actors |-> acts]

\* The persisted state once the facade has finished: erased by a destroy.
StoreAfter(kind, store) ==
  IF kind = "destroy" THEN [k \in Keys |-> EmptyStr] ELSE store

\* Global.cpp:32-41.  Line 33/38 hands on_finished to the database facade,
\* which signals it when its close is complete: inside that call (immediate)
\* or later (DbCloseFinished).  Lines 34-35/39-40 run after that call.
Close(kind, immediate) ==
  /\ proc = "running"
  /\ last' = Did("close", "", 0)
  /\ IF ~td_db_
       THEN \* td_db_ is null: line 33/38 dereferences it
            /\ proc' = "aborted"
            /\ UNCHANGED progVars
       ELSE /\ dbOpen
            /\ dbOpen' = FALSE
            /\ IF immediate
                 THEN /\ cbPending' = "none"
                      /\ cbObs' = Observe(parameters_, actors)
                      /\ pmc' = StoreAfter(kind, pmc)
                 ELSE /\ cbPending' = kind
                      /\ cbObs' = NoObs
                      /\ pmc' = pmc
            /\ actors' = [actors EXCEPT !["state_manager_"] = 0]
            /\ parameters_' = "default"
            /\ UNCHANGED <<proc, td_db_, timeVars, system_time_saved_at_, schedVars>>
  /\ UNCHANGED <<clockVars, srvMax, trig, saved, writes, concVars, extVars>>

close_all(immediate) == Close("close", immediate)
close_and_destroy_all(immediate) == Close("destroy", immediate)

\* The database facade completes a close and signals on_finished.
DbCloseFinished ==
  /\ proc = "running"
  /\ cbPending # "none"
  /\ cbPending' = "none"
  /\ cbObs' = Observe(parameters_, actors)
  /\ pmc' = StoreAfter(cbPending, pmc)
  /\ last' = Did("finished", "", 0)
  /\ UNCHANGED <<proc, parameters_, td_db_, dbOpen, timeVars, system_time_saved_at_,
                 schedVars, actors, clockVars, srvMax, trig, saved, writes, concVars, extVars>>

\* ------------------------------------------------ Global::get_location_key
\* Coordinates are whole degrees.  The code's doubles are modelled in fixed
\* point, cut towards zero: the tables hold std::tan in ten-thousandths and
\* std::cos, std::sin in thousandths at the angles the model uses, as computed
\* in double precision (so tan(PI / 4) is 0.9999999999999999, below 1).
LatDegs == {-90, -45, -10, 0, 10, 45, 90}
LonDegs == {-180, -135, -90, -45, 0, 45, 90, 135, 180}

\* Global.cpp:196  std::tan(PI / 4 - latitude / 2), latitude >= 0 in degrees
tan_quarter_minus_half ==
  (0 :> 9999) @@ (10 :> 8390) @@ (45 :> 4142) @@ (90 :> 0)
\* Global.cpp:197  std::cos(longitude)
cos_deg ==
  (-180 :> -1000) @@ (-135 :> -707) @@ (-90 :> 0) @@ (-45 :> 707) @@
  (0 :> 1000) @@ (45 :> 707) @@ (90 :> 0) @@ (135 :> -707) @@ (180 :> -1000)
\* Global.cpp:198  std::sin(longitude)
sin_deg ==
  (-180 :> 0) @@ (-135 :> -707) @@ (-90 :> -1000) @@ (-45 :> -707) @@
  (0 :> 0) @@ (45 :> 707) @@ (90 :> 1000) @@ (135 :> 707) @@ (180 :> 0)

\* Global.cpp:197-198  static_cast<int64>(double): the fraction is dropped, towards
\* zero.  x is the product of a value in ten-thousandths and one in thousandths.
static_cast_int64(x) ==
  IF x >= 0 THEN x \div (10000 * 1000)
            ELSE 0 - ((0 - x) \div (10000 * 1000))

\* Global.cpp:192  the value added to the key for a negative latitude
SignBit == 65536

\* Faulty variant: the key of a negative latitude gets no sign bit.
get_location_key_mut(latitude, longitude) ==
  LET lat == IF latitude < 0 THEN 0 - latitude ELSE latitude
      f == tan_quarter_minus_half[lat]
  IN  static_cast_int64(f * cos_deg[longitude] * 128) * 256
        + static_cast_int64(f * sin_deg[longitude] * 128)

\* Global.cpp:185-200
get_location_key(latitude, longitude) ==
  LET lat == IF latitude < 0 THEN 0 - latitude ELSE latitude
      key == IF latitude < 0 THEN SignBit ELSE 0
      f == tan_quarter_minus_half[lat]
  IN  key + static_cast_int64(f * cos_deg[longitude] * 128) * 256
          + static_cast_int64(f * sin_deg[longitude] * 128)

GetLocationKey(latitude, longitude) ==
  /\ proc = "running"
  /\ last' = Did("get_location_key", "", get_location_key(latitude, longitude))
  /\ UNCHANGED <<proc, progVars, clockVars, srvMax, trig, saved, writes, concVars, extVars>>

\* ---------- Global::get_location_access_hash, Global::add_location_access_hash
\* Global.cpp:202-208
get_location_access_hash(latitude, longitude) ==
  LET key == get_location_key(latitude, longitude)
  IN  IF key \in DOMAIN location_access_hashes_
        THEN location_access_hashes_[key]
        ELSE 0

GetLocationAccessHash(latitude, longitude) ==
  /\ proc = "running"
  /\ last' = Did("get_location_access_hash", "", get_location_access_hash(latitude, longitude))
  /\ UNCHANGED <<proc, progVars, clockVars, srvMax, trig, saved, writes, concVars, extVars>>

\* Faulty variant: storing an entry drops the entries of the other keys.
put_hash_mut(hashes, key, access_hash) == [k \in {key} |-> access_hash]

\* Global.cpp:215  location_access_hashes_[key] = access_hash
put_hash(hashes, key, access_hash) ==
  [k \in (DOMAIN hashes) \cup {key} |-> IF k = key THEN access_hash ELSE hashes[k]]

\* Faulty variant: a zero access hash is stored like any other.
keeps_hash_mut(access_hash) == TRUE

\* Global.cpp:211-213  a zero access hash is not stored
keeps_hash(access_hash) == access_hash # 0

\* Global.cpp:210-216
add_location_access_hash(latitude, longitude, access_hash) ==
  /\ proc = "running"
  /\ location_access_hashes_' =
       IF keeps_hash(access_hash)
         THEN put_hash(location_access_hashes_, get_location_key(latitude, longitude),
                       access_hash)
         ELSE location_access_hashes_
  /\ last' = Did("add_location_access_hash",
                 IF keeps_hash(access_hash) THEN "stored" ELSE "ignored", 0)
  /\ UNCHANGED <<proc, progVars, clockVars, srvMax, trig, saved, writes, concVars,
                 shared_config_>>

\* ----------------------- Global::set_shared_config, Global::get_webfile_dc_id
\* A ConfigShared: the option "webfile_dc_id" is absent (<<>>) or holds an integer.
OptionValues == {<<>>} \cup {<<v>> : v \in {-1, 0, 1, 2, 4, 5, 1000, 1001}}
Configs == [webfile_dc_id : OptionValues]

\* ConfigShared::get_option_integer(name): the value, 0 when the option is absent.
get_option_integer(config, name) == IF config[name] = <<>> THEN 0 ELSE config[name][1]

\* DcId::is_valid(dc_id)
DcId_is_valid(dc_id) == 1 <= dc_id /\ dc_id <= 1000

\* Global::is_test_dc(): parameters_.use_test_dc
is_test_dc == parameters_ = "test"

\* Global.cpp:181-183
set_shared_config(shared_config) ==
  /\ proc = "running"
  /\ shared_config_' = shared_config
  /\ last' = Did("set_shared_config", "", 0)
  /\ UNCHANGED <<proc, progVars, clockVars, srvMax, trig, saved, writes, concVars,
                 location_access_hashes_>>

\* Faulty variant: the option is returned as it is, valid or not.
get_webfile_dc_id_mut == get_option_integer(shared_config_[1], "webfile_dc_id")

\* Global.cpp:158-169  the id returned, shared_config_ being set
get_webfile_dc_id ==
  LET dc_id == get_option_integer(shared_config_[1], "webfile_dc_id")
  IN  IF ~DcId_is_valid(dc_id)
        THEN (IF is_test_dc THEN 2 ELSE 4)
        ELSE dc_id

\* Global.cpp:156-170.  CHECK(shared_config_ != nullptr) ends the process when no
\* configuration is held; DcId::internal(dc_id) is recorded as an "internal" id.
GetWebfileDcId ==
  /\ proc = "running"
  /\ IF shared_config_ = <<>>
       THEN /\ proc' = "aborted"
            /\ last' = Did("get_webfile_dc_id", "aborted", 0)
       ELSE /\ proc' = proc
            /\ last' = Did("get_webfile_dc_id", "internal", get_webfile_dc_id)
  /\ UNCHANGED <<progVars, clockVars, srvMax, trig, saved, writes, concVars, extVars>>

\* ------------------- update_server_time_difference called from two schedulers
\* The same code, one shared-memory access (or one store write) per step, for
\* actors of different schedulers calling it at the same time.  srvMax and trig
\* describe calls made one after another and are left alone here.
\* Line 109 is one step placed at its last load (the flag only goes from false
\* to true here), lines 110-111 one step (the only reader of the two fields is
\* the test of line 109, which accepts whenever the flag is still false).
\* Every clock read and every store write of lines 115-128 is a step of its
\* own: the clocks and the other scheduler can move between any two of them.

\* Global.cpp:109  the test of the flag and of the stored offset
CallUpdateServer(p, diff) ==
  /\ proc = "running"
  /\ pc[p] = "idle"
  /\ IF accepts(server_time_difference_was_updated_, server_time_difference_, diff)
       THEN /\ pc' = [pc EXCEPT ![p] = "l110"]
            /\ loc' = [loc EXCEPT ![p].diff = diff]
       ELSE UNCHANGED <<pc, loc>>
  /\ last' = Did("step", "", 0)
  /\ UNCHANGED <<proc, progVars, clockVars, extVars, srvMax, trig, saved, writes>>

\* Global.cpp:110-111
StoreOffset(p) ==
  /\ proc = "running"
  /\ pc[p] = "l110"
  /\ server_time_difference_' = loc[p].diff
  /\ server_time_difference_was_updated_' = TRUE
  /\ pc' = [pc EXCEPT ![p] = "l115"]
  /\ last' = Did("step", "", 0)
  /\ UNCHANGED <<proc, parameters_, dbVars, pmc, dns_time_difference_,
                 dns_time_difference_was_updated_, system_time_saved_at_, schedVars,
                 actors, clockVars, extVars, srvMax, trig, saved, writes, loc>>

\* Global.cpp:115  the call of Time::now() in diff + Time::now() -
\* Clocks::system().  The language leaves the order of the two calls to the
\* build: this one runs first (from l115) or second (from l115s), and the
\* second of them completes save_diff.
ReadNowForOffset(p) ==
  /\ proc = "running"
  /\ pc[p] \in {"l115", "l115s"}
  /\ IF pc[p] = "l115"
       THEN /\ loc' = [loc EXCEPT ![p].t = now]
            /\ pc' = [pc EXCEPT ![p] = "l115t"]
       ELSE /\ loc' = [loc EXCEPT ![p] = [NoLocals EXCEPT
                         !.save_diff = save_diff_of(loc[p].diff, now, loc[p].s)]]
            /\ pc' = [pc EXCEPT ![p] = "l117"]
  /\ last' = Did("step", "", 0)
  /\ UNCHANGED <<proc, progVars, clockVars, extVars, srvMax, trig, saved, writes>>

\* Global.cpp:115  the call of Clocks::system(): first (from l115) or second
\* (from l115t)
ReadSystemForOffset(p) ==
  /\ proc = "running"
  /\ pc[p] \in {"l115", "l115t"}
  /\ IF pc[p] = "l115"
       THEN /\ loc' = [loc EXCEPT ![p].s = sys]
            /\ pc' = [pc EXCEPT ![p] = "l115s"]
       ELSE /\ loc' = [loc EXCEPT ![p] = [NoLocals EXCEPT
                         !.save_diff = save_diff_of(loc[p].diff, loc[p].t, sys)]]
            /\ pc' = [pc EXCEPT ![p] = "l117"]
  /\ last' = Did("step", "", 0)
  /\ UNCHANGED <<proc, progVars, clockVars, extVars, srvMax, trig, saved, writes>>

\* Global.cpp:117  the write of "server_time_difference" through td_db(): with
\* no database the call ends the process
PersistOffset(p) ==
  /\ proc = "running"
  /\ pc[p] = "l117"
  /\ last' = Did("step", "", 0)
  /\ IF ~td_db_
       THEN /\ proc' = "aborted"
            /\ UNCHANGED <<pmc, pc, loc>>
       ELSE /\ dbOpen
            /\ pmc' = [pmc EXCEPT !["server_time_difference"] = serialize(loc[p].save_diff)]
            /\ pc' = [pc EXCEPT ![p] = "l123"]
            /\ loc' = [loc EXCEPT ![p] = NoLocals]
            /\ proc' = proc
  /\ UNCHANGED <<parameters_, dbVars, timeVars, system_time_saved_at_, schedVars, actors,
                 clockVars, extVars, srvMax, trig, saved, writes>>

\* Global.cpp:122  save_system_time called on its own: the positions s123 ...
\* s128 are lines 123 ... 128 reached this way, l123 ... l128 the same lines
\* reached from line 118.
CallSaveSystemTime(p) ==
  /\ proc = "running"
  /\ pc[p] = "idle"
  /\ pc' = [pc EXCEPT ![p] = "s123"]
  /\ last' = Did("step", "", 0)
  /\ UNCHANGED <<proc, progVars, clockVars, extVars, srvMax, trig, saved, writes, loc>>

\* The position that follows `line` on the path (l: from line 118, s: called on
\* its own) that position `at` is on.
SameCall(at, line) == IF at \in {"l123", "l124", "l125", "l126", "l128"} THEN "l" \o line ELSE "s" \o line

\* Global.cpp:123  auto t = Time::now()
ReadTime(p) ==
  /\ proc = "running"
  /\ pc[p] \in {"l123", "s123"}
  /\ loc' = [loc EXCEPT ![p].t = now]
  /\ pc' = [pc EXCEPT ![p] = SameCall(pc[p], "124")]
  /\ last' = Did("step", "", 0)
  /\ UNCHANGED <<proc, progVars, clockVars, extVars, srvMax, trig, saved, writes>>

\* Global.cpp:124  the relaxed load and the comparison with t
LoadSavedAt(p) ==
  /\ proc = "running"
  /\ pc[p] \in {"l124", "s124"}
  /\ IF should_save(system_time_saved_at_, loc[p].t)
       THEN /\ pc' = [pc EXCEPT ![p] = SameCall(pc[p], "125")]
            /\ loc' = loc
       ELSE /\ pc' = [pc EXCEPT ![p] = "idle"]
            /\ loc' = [loc EXCEPT ![p] = NoLocals]
  /\ last' = Did("step", "", 0)
  /\ UNCHANGED <<proc, progVars, clockVars, extVars, srvMax, trig, saved, writes>>

\* Global.cpp:125  system_time_saved_at_ = t: a store of its own
StoreSavedAt(p) ==
  /\ proc = "running"
  /\ pc[p] \in {"l125", "s125"}
  /\ system_time_saved_at_' = loc[p].t
  /\ pc' = [pc EXCEPT ![p] = SameCall(pc[p], "126")]
  /\ loc' = [loc EXCEPT ![p] = NoLocals]
  /\ last' = Did("step", "", 0)
  /\ UNCHANGED <<proc, parameters_, dbVars, pmc, timeVars, schedVars, actors,
                 clockVars, extVars, srvMax, trig, saved, writes>>

\* Global.cpp:126  double save_system_time = Clocks::system()
ReadSystemTime(p) ==
  /\ proc = "running"
  /\ pc[p] \in {"l126", "s126"}
  /\ loc' = [loc EXCEPT ![p].s = sys]
  /\ pc' = [pc EXCEPT ![p] = SameCall(pc[p], "128")]
  /\ last' = Did("step", "", 0)
  /\ UNCHANGED <<proc, progVars, clockVars, extVars, srvMax, trig, saved, writes>>

\* Global.cpp:128  the write of "system_time" through td_db(): with no database
\* the call ends the process
WriteSystemTime(p) ==
  /\ proc = "running"
  /\ pc[p] \in {"l128", "s128"}
  /\ last' = Did("step", "", 0)
  /\ IF ~td_db_
       THEN /\ proc' = "aborted"
            /\ UNCHANGED <<pmc, writes, pc, loc>>
       ELSE /\ dbOpen
            /\ pmc' = [pmc EXCEPT !["system_time"] = serialize(loc[p].s)]
            /\ writes' = Last2(Append(writes, now))
            /\ pc' = [pc EXCEPT ![p] = "idle"]
            /\ loc' = [loc EXCEPT ![p] = NoLocals]
            /\ proc' = proc
  /\ UNCHANGED <<parameters_, dbVars, timeVars, system_time_saved_at_, schedVars,
                 actors, clockVars, extVars, srvMax, trig, saved>>

\* ------------------------------------------------------------ specifications
InitCall == \E n \in 1..MaxSched : \E c \in 0..(n - 1) : init("custom", c, n)
UpdateServer == \E d \in Cands : update_server_time_difference(d)
UpdateDns == \E d \in Cands : update_dns_time_difference(d)
SaveSystemTime == save_system_time

\* The time-sync engine over the life of a process, one caller at a time.
Next ==
  \/ InitCall
  \/ UpdateServer
  \/ UpdateDns
  \/ GetDnsTimeDifference
  \/ SaveSystemTime
  \/ Tick
  \/ ClockJump

Spec == Init /\ [][Next]_vars

\* The life cycle: init, the registry's setters, the two shutdown operations
\* and the completion of the database's close.
InitAny == \E p \in ParamValues : init(p, 0, 1)
SetConnectionCreator == \E a \in 0..1 : set_connection_creator(a)
SetTempAuthKeyWatchdog == \E a \in 0..1 : set_temp_auth_key_watchdog(a)
SetMtprotoHeader == \E a \in 0..1 : set_mtproto_header(a)
SetNetQueryDispatcher == \E a \in 0..1 : set_net_query_dispatcher(a)
SetStateManager == \E a \in 0..1 : set_state_manager(a)
CloseAll == \E i \in BOOLEAN : close_all(i)
CloseAndDestroyAll == \E i \in BOOLEAN : close_and_destroy_all(i)

NextLife ==
  \/ InitAny
  \/ SetConnectionCreator
  \/ SetTempAuthKeyWatchdog
  \/ SetMtprotoHeader
  \/ SetNetQueryDispatcher
  \/ SetStateManager
  \/ CloseAll
  \/ CloseAndDestroyAll
  \/ DbCloseFinished

SpecLife == Init /\ [][NextLife]_vars

\* Two schedulers calling update_server_time_difference at the same time,
\* after an init made while no call is running.
InitIdle == (\A p \in Scheds : pc[p] = "idle") /\ last.op = "none" /\ init("custom", 0, 1)
\* The candidates of concurrent callers: one that an updated slot may reject
\* and a larger one that it accepts.
ConcCands == {0, MaxCand}
SchedCall == \E p \in Scheds, d \in ConcCands : CallUpdateServer(p, d)
SchedStoreOffset == \E p \in Scheds : StoreOffset(p)
SchedReadNowForOffset == \E p \in Scheds : ReadNowForOffset(p)
SchedReadSystemForOffset == \E p \in Scheds : ReadSystemForOffset(p)
SchedPersistOffset == \E p \in Scheds : PersistOffset(p)
SchedReadTime == \E p \in Scheds : ReadTime(p)
SchedLoadSavedAt == \E p \in Scheds : LoadSavedAt(p)
SchedStoreSavedAt == \E p \in Scheds : StoreSavedAt(p)
SchedReadSystemTime == \E p \in Scheds : ReadSystemTime(p)
SchedWriteSystemTime == \E p \in Scheds : WriteSystemTime(p)
SchedCallSave == \E p \in Scheds : CallSaveSystemTime(p)

NextConc ==
  \/ InitIdle
  \/ SchedCall
  \/ SchedCallSave
  \/ SchedStoreOffset
  \/ SchedReadNowForOffset
  \/ SchedReadSystemForOffset
  \/ SchedPersistOffset
  \/ SchedReadTime
  \/ SchedLoadSavedAt
  \/ SchedStoreSavedAt
  \/ SchedReadSystemTime
  \/ SchedWriteSystemTime
  \/ Tick

\* The schedulers are followed from a first start: nothing has been left on
\* disk by an earlier run.
InitConc == Init /\ pmc = [k \in Keys |-> EmptyStr]

SpecConc == InitConc /\ [][NextConc]_vars

\* The time-sync engine across shutdowns: what a context that has been closed,
\* and one that is initialized again, answers and keeps.
NextShut ==
  \/ InitCall
  \/ UpdateServer
  \/ UpdateDns
  \/ GetDnsTimeDifference
  \/ SaveSystemTime
  \/ CloseAll
  \/ CloseAndDestroyAll
  \/ DbCloseFinished
  \/ ClockJump

SpecShut == Init /\ [][NextShut]_vars

\* The scheduler ids init assigns, for every scheduler count and initializing
\* scheduler, and the operations that run after it.
InitSched == \E n \in 1..MaxSchedulers : \E c \in 0..(n - 1) : init("custom", c, n)

NextSched ==
  \/ InitSched
  \/ UpdateDns
  \/ SetConnectionCreator
  \/ CloseAll
  \/ CloseAndDestroyAll
  \/ DbCloseFinished

SpecSched == Init /\ [][NextSched]_vars

\* The location cache over the life of a process.  Coordinates: two points of
\* one geocell (at the pole every longitude has the same key) and two points of
\* cells of their own, one on each side of the equator.
LocPoints == {<<90, 0>>, <<90, 45>>, <<-10, 180>>, <<10, 180>>}
Hashes == 0..MaxHash
AddLocationAccessHash ==
  \E c \in LocPoints, h \in Hashes : add_location_access_hash(c[1], c[2], h)
LookupLocationAccessHash == \E c \in LocPoints : GetLocationAccessHash(c[1], c[2])

NextLoc ==
  \/ InitCall
  \/ AddLocationAccessHash
  \/ LookupLocationAccessHash
  \/ CloseAll
  \/ CloseAndDestroyAll
  \/ DbCloseFinished

SpecLoc == Init /\ [][NextLoc]_vars

\* get_location_key applied to every pair of the coordinates modelled.
LocationKey == \E lat \in LatDegs, lon \in LonDegs : GetLocationKey(lat, lon)

NextKey == LocationKey

SpecKey == Init /\ [][NextKey]_vars

\* The data-center selection: init in a production or a test environment, the
\* configuration being set, replaced or dropped, and a shutdown.
InitEnv == \E p \in {"custom", "test"} : init(p, 0, 1)
SetSharedConfig == \E c \in {<<>>} \cup {<<cfg>> : cfg \in Configs} : set_shared_config(c)

NextDc ==
  \/ InitEnv
  \/ SetSharedConfig
  \/ GetWebfileDcId
  \/ CloseAll

SpecDc == Init /\ [][NextDc]_vars

\* ====================================================================== claims
Malformed(str) == str # EmptyStr /\ ~unserialize_ok(str)

\* C1: after init, once update_server_time_difference has been called one or
\* more times with no init in between, the stored server offset is the largest
\* of the candidates passed and the server slot is marked updated.
C1_ServerOffsetIsMax ==
  (proc = "running" /\ srvMax # <<>>) =>
    /\ server_time_difference_ = srvMax[1]
    /\ server_time_difference_was_updated_

\* C1 witness: a call was rejected because an earlier call since init had passed a larger
\* candidate, which is still the stored offset.
C1_Witness ==
  /\ last = Did("update_server", "rejected", 0)
  /\ srvMax = <<MaxCand>>
  /\ server_time_difference_ = MaxCand

\* C2 as claimed: no call of update_server_time_difference lowers the stored
\* server offset, the first call after init included (compared with the offset
\* init loaded or defaulted).
C2_NeverLowers ==
  [][UpdateServer => server_time_difference_' >= server_time_difference_]_vars

\* C2 amended: once the server slot is marked updated, a call of
\* update_server_time_difference never lowers the stored server offset; the
\* first call after init stores its candidate whatever init had loaded.
C2_NeverLowersOnceUpdated ==
  [][\A d \in Cands :
       (update_server_time_difference(d) /\ proc' = "running") =>
         IF server_time_difference_was_updated_
           THEN server_time_difference_' >= server_time_difference_
           ELSE server_time_difference_' = d]_vars

\* C2 witness: the first call after init has lowered the offset init had set, and a later
\* call with a smaller candidate was rejected.
C2_Witness ==
  /\ last = Did("update_server", "rejected", 0)
  /\ server_time_difference_was_updated_
  /\ server_time_difference_ < default_time_difference
  /\ srvMax = <<server_time_difference_>>

\* C3: get_dns_time_difference can be called in every state of a running
\* process, before init too, and returns: the offset of the only updated slot;
\* the larger offset when both are updated; the server offset when neither is
\* updated and a database is held; system clock minus monotonic clock when
\* neither is updated and no database is held.
C3_ResolutionOrder ==
  /\ proc = "running" => ENABLED GetDnsTimeDifference
  /\ last.op = "get" =>
       LET s == server_time_difference_was_updated_
           d == dns_time_difference_was_updated_
       IN  /\ (s /\ ~d) => last.val = server_time_difference_
           /\ (d /\ ~s) => last.val = dns_time_difference_
           /\ (s /\ d) => /\ last.val >= server_time_difference_
                          /\ last.val >= dns_time_difference_
                          /\ last.val \in {server_time_difference_, dns_time_difference_}
           /\ (~s /\ ~d /\ td_db_) => last.val = server_time_difference_
           /\ (~s /\ ~d /\ ~td_db_) => last.val = sys - now

\* C3 witness: both slots are updated, the server offset is the larger one, and
\* get_dns_time_difference has returned.
C3_Witness ==
  /\ last.op = "get"
  /\ server_time_difference_was_updated_
  /\ dns_time_difference_was_updated_
  /\ dns_time_difference_ < server_time_difference_

\* C4: update_dns_time_difference(v) stores v as the dns offset whatever the
\* stored one was, marks the dns slot updated, leaves the server slot and the
\* persistent store as they were, and, when the server slot is not marked
\* updated, makes get_dns_time_difference return v.
C4_DnsOverwrite ==
  [][\A v \in Cands :
       update_dns_time_difference(v) =>
         /\ dns_time_difference_' = v
         /\ dns_time_difference_was_updated_'
         /\ server_time_difference_' = server_time_difference_
         /\ server_time_difference_was_updated_' = server_time_difference_was_updated_
         /\ pmc' = pmc
         /\ (~server_time_difference_was_updated_ => get_dns_time_difference' = v)]_vars

\* C4 witness: the dns slot was overwritten with the smallest candidate, smaller than any
\* offset it can have held before, while the server slot is not updated.
C4_Witness ==
  /\ last.op = "update_dns"
  /\ dns_time_difference_was_updated_
  /\ dns_time_difference_ = 0 - MinCandNeg
  /\ ~server_time_difference_was_updated_
  /\ td_db_

\* C5 as claimed: when init finds both keys, the loaded server offset is the
\* saved offset plus (T_old - T_new) when the saved system time T_old is later
\* than the current system time T_new, and the saved offset otherwise.
C5_BackwardsFixOnly ==
  (last = Did("init", "ok", 0) /\ pmc["server_time_difference"] # EmptyStr
     /\ pmc["system_time"] # EmptyStr) =>
    LET saved_offset == unserialize_val(pmc["server_time_difference"])
        T_old == unserialize_val(pmc["system_time"])
        T_new == sys
    IN  server_time_difference_ =
          IF T_old > T_new THEN saved_offset + (T_old - T_new) ELSE saved_offset

\* C5 amended: the loaded server offset is the saved offset plus (current
\* system time - current monotonic time), plus (T_old - T_new) when T_old is
\* later than T_new and nothing more otherwise.
C5_BackwardsFixOnDefault ==
  (last = Did("init", "ok", 0) /\ pmc["server_time_difference"] # EmptyStr
     /\ pmc["system_time"] # EmptyStr) =>
    LET saved_offset == unserialize_val(pmc["server_time_difference"])
        T_old == unserialize_val(pmc["system_time"])
        T_new == sys
    IN  server_time_difference_ =
          IF T_old > T_new THEN saved_offset + (T_new - now) + (T_old - T_new)
                           ELSE saved_offset + (T_new - now)

\* C5 witness: init has loaded a saved offset while the saved system time is later than the
\* system clock.
C5_Witness ==
  /\ last = Did("init", "ok", 0)
  /\ pmc["server_time_difference"] # EmptyStr
  /\ pmc["system_time"] # EmptyStr
  /\ unserialize_val(pmc["system_time"]) > sys
  /\ now > 0

\* C6 as claimed: "system_time" is written only when at least 10 seconds of
\* monotonic time have passed since its previous write, and of two accepted
\* updates made within 10 seconds of each other exactly one writes it.
C6_ExactlyOneWrite ==
  /\ Len(writes) = 2 => writes[2] - writes[1] >= Throttle
  /\ (trig # <<>> /\ trig[1].near) => (trig[1].wrote # trig[1].prevWrote)

\* C6 amended: "system_time" is written only when at least 10 seconds of
\* monotonic time have passed since its previous write, and of two accepted
\* updates made within 10 seconds of each other at most one writes it: each
\* accepted update writes it exactly when more than 10 seconds have passed
\* since the last write (or there has been none), so the second of the two
\* writes nothing when the first wrote, and writes when the first did not and
\* the last write is by now more than 10 seconds back.
C6_AtMostOneWrite ==
  /\ Len(writes) = 2 => writes[2] - writes[1] >= Throttle
  /\ (trig # <<>> /\ trig[1].near) => ~(trig[1].wrote /\ trig[1].prevWrote)
  /\ (last = Did("update_server", "accepted", 0)) =>
       /\ trig # <<>>
       /\ writes # <<>>
       /\ LET n == Len(writes)
          IN  IF trig[1].wrote
                THEN /\ writes[n] = trig[1].at
                     /\ n = 2 => trig[1].at - writes[1] > Throttle
                ELSE /\ trig[1].at - writes[n] <= Throttle
                     /\ trig[1].at >= writes[n]

\* C6 witness: an accepted update wrote "system_time", the next accepted update did not,
\* and a third one, less than 10 seconds after the second and more than 10 seconds after
\* the write, has just written it.
C6_Witness ==
  /\ last = Did("update_server", "accepted", 0)
  /\ trig # <<>>
  /\ trig[1].near
  /\ ~trig[1].prevWrote
  /\ trig[1].wrote
  /\ Len(writes) = 2
  /\ writes[2] - writes[1] = Throttle + 1

\* C7: when update_server_time_difference, and so save_system_time, runs on
\* several schedulers at once, two writes of "system_time" are never less than
\* 10 seconds of monotonic time apart: at most one caller writes per window.
C7_OneWriterPerWindow ==
  Len(writes) = 2 => writes[2] - writes[1] >= Throttle

\* C8: init returns a failure, and the process keeps running, when a persisted
\* value is present and does not decode; it returns success otherwise.
C8_InitFailurePropagates ==
  last.op = "init" =>
    IF Malformed(pmc["server_time_difference"]) \/ Malformed(pmc["system_time"])
      THEN last.res = "error" /\ proc = "running"
      ELSE last.res = "ok" /\ proc = "running"

\* C9: when close_all or close_and_destroy_all has returned, the parameters are
\* the default ones and every slot of the registry is empty.
C9_ShutdownResetsAll ==
  (last.op = "close" /\ proc = "running") =>
    /\ parameters_ = "default"
    /\ connection_creator = 0
    /\ temp_auth_key_watchdog = 0
    /\ net_query_dispatcher = 0
    /\ mtproto_header = 0
    /\ state_manager = 0

\* C10: whenever the completion callback of a shutdown is signalled, the
\* parameters and the registry it can observe have already been reset.
C10_ResetBeforeCallback ==
  cbObs.seen =>
    /\ cbObs.parameters = "default"
    /\ \A r \in Roles : cbObs.actors[r] = 0

\* C11: after close_all or close_and_destroy_all, with no init since,
\* get_dns_time_difference called while neither slot is marked updated returns
\* the fresh estimate, system clock minus monotonic clock, and not the server
\* offset stored before the shutdown.
C11_FreshEstimateAfterShutdown ==
  (last.op = "get" /\ td_db_ /\ ~dbOpen
     /\ ~server_time_difference_was_updated_ /\ ~dns_time_difference_was_updated_) =>
    last.val = sys - now

\* C12: for every scheduler count n >= 1 and initializing scheduler c in
\* 0..n-1, init sets the background (gc) scheduler id to min(c + 2, n - 1) and
\* the slow-network scheduler id to min(c + 3, n - 1); both are ids in 0..n-1,
\* the first is not greater than the second, and no operation other than init
\* changes them.
C12_SchedulerPartitions ==
  [][/\ \A n \in 1..MaxSchedulers : \A c \in 0..(n - 1) :
          (init("custom", c, n) /\ proc' = "running") =>
            /\ gc_scheduler_id_' = IF c + 2 <= n - 1 THEN c + 2 ELSE n - 1
            /\ slow_net_scheduler_id_' = IF c + 3 <= n - 1 THEN c + 3 ELSE n - 1
            /\ gc_scheduler_id_' \in 0..(n - 1)
            /\ slow_net_scheduler_id_' \in 0..(n - 1)
            /\ gc_scheduler_id_' <= slow_net_scheduler_id_'
     /\ last'.op # "init" => UNCHANGED schedVars]_vars

\* C12 witness: init ran with a scheduler count that clamps the slow-network id but not the
\* background id, and a shutdown that followed has left both ids as init set them.
C12_Witness ==
  /\ last.op = "close"
  /\ gc_scheduler_id_ = MaxSchedulers - 2
  /\ slow_net_scheduler_id_ = MaxSchedulers - 1

\* C13: the location cache never holds an entry whose access hash is zero;
\* add_location_access_hash with access hash 0 leaves the whole cache as it
\* was, so get_location_access_hash returns for every coordinate pair what it
\* returned before the call (0 where the cell has no entry).
C13_NoZeroToken ==
  [][/\ \A k \in DOMAIN location_access_hashes_' : location_access_hashes_'[k] # 0
     /\ \A c \in LocPoints :
          add_location_access_hash(c[1], c[2], 0) =>
            /\ location_access_hashes_' = location_access_hashes_
            /\ \A q \in LocPoints :
                 get_location_access_hash(q[1], q[2])' = get_location_access_hash(q[1], q[2])]_vars

\* C13 witness: add_location_access_hash was called with access hash 0 while every cell had
\* an entry, and every cell still has its entry.
C13_Witness ==
  /\ last = Did("add_location_access_hash", "ignored", 0)
  /\ \A c \in LocPoints : get_location_access_hash(c[1], c[2]) # 0

\* C14: after add_location_access_hash(lat, lon, h) with h # 0,
\* get_location_access_hash returns h for every coordinate pair with the same
\* geocell key; the entries of all other keys are unchanged; an entry changes
\* only by a non-zero add for its key; and no operation, close_all and
\* close_and_destroy_all included, removes an entry.
C14_CacheKeepsEntries ==
  [][/\ \A c \in LocPoints : \A h \in 1..MaxHash :
          add_location_access_hash(c[1], c[2], h) =>
            \A q \in LocPoints :
              get_location_access_hash(q[1], q[2])' =
                IF get_location_key(q[1], q[2]) = get_location_key(c[1], c[2])
                  THEN h
                  ELSE get_location_access_hash(q[1], q[2])
     /\ \A k \in DOMAIN location_access_hashes_ :
          /\ k \in DOMAIN location_access_hashes_'
          /\ location_access_hashes_'[k] # location_access_hashes_[k] =>
               \E c \in LocPoints :
                 /\ get_location_key(c[1], c[2]) = k
                 /\ add_location_access_hash(c[1], c[2], location_access_hashes_'[k])
                 /\ location_access_hashes_'[k] # 0]_vars

\* C14 witness: after a shutdown, a lookup at one point of a geocell has returned the hash
\* added at another point of it, while the cell across the equator holds a different hash.
C14_Witness ==
  /\ last = Did("get_location_access_hash", "", MaxHash)
  /\ td_db_ /\ ~dbOpen
  /\ get_location_access_hash(90, 0) = MaxHash
  /\ get_location_access_hash(90, 45) = MaxHash
  /\ get_location_access_hash(-10, 180) = 1
  /\ get_location_access_hash(10, 180) = 0

\* C15 as claimed: in the key get_location_key returns, the bit of value 65536
\* is set for every negative latitude and for no other latitude, whatever the
\* longitude; and a point of negative latitude never gets the key of a point of
\* non-negative latitude.
C15_SignBitSet ==
  [][\A lat \in LatDegs : \A lon \in LonDegs :
       GetLocationKey(lat, lon) =>
         /\ ((last'.val \div SignBit) % 2 = 1) <=> (lat < 0)
         /\ \A lat2 \in LatDegs : \A lon2 \in LonDegs :
              ((lat2 < 0) # (lat < 0)) => get_location_key(lat2, lon2) # last'.val]_vars

\* C15 amended: the key is 65536 for a negative latitude (0 for any other) plus
\* the two quantized terms, whose sum lies in -32896..32896 and may be
\* negative; the bit of value 65536 of the key is therefore set exactly when
\* one of "the latitude is negative" and "the terms sum to a negative number"
\* holds, not both.  A point of negative latitude still never gets the key of
\* a point of non-negative latitude: its key is the larger one.
C15_SignOffset ==
  [][\A lat \in LatDegs : \A lon \in LonDegs :
       GetLocationKey(lat, lon) =>
         LET key == last'.val
             terms == key - (IF lat < 0 THEN SignBit ELSE 0)
         IN  /\ terms \in (0 - (128 * 256 + 128))..(128 * 256 + 128)
             /\ ((key \div SignBit) % 2 = 1) <=> ((lat < 0) # (terms < 0))
             /\ \A lat2 \in LatDegs : \A lon2 \in LonDegs :
                  /\ ((lat2 < 0) # (lat < 0)) => get_location_key(lat2, lon2) # key
                  /\ (lat2 < 0 /\ lat >= 0) => get_location_key(lat2, lon2) > key]_vars

\* C15 witness: get_location_key has returned the key of a point of negative latitude whose
\* first term is negative, a key below 65536.
C15_Witness ==
  /\ last.op = "get_location_key"
  /\ last.val = get_location_key(-10, 180)
  /\ last.val < SignBit

\* C16: get_webfile_dc_id returns the value of the option "webfile_dc_id"
\* unchanged when it is a valid data-center id; when the option is invalid or
\* absent it returns 2 in a test environment and 4 otherwise; the id returned
\* is valid in every case.
C16_WebfileDcFallback ==
  (last.op = "get_webfile_dc_id" /\ proc = "running") =>
    LET option == shared_config_[1].webfile_dc_id
    IN  /\ last.res = "internal"
        /\ 1 <= last.val /\ last.val <= 1000
        /\ IF option # <<>> /\ 1 <= option[1] /\ option[1] <= 1000
             THEN last.val = option[1]
             ELSE last.val = IF parameters_ = "test" THEN 2 ELSE 4

\* C16 witness: in a test environment with the option set to an id above the valid range,
\* get_webfile_dc_id has returned 2.
C16_Witness ==
  /\ last = Did("get_webfile_dc_id", "internal", 2)
  /\ parameters_ = "test"
  /\ shared_config_ = <<[webfile_dc_id |-> <<1001>>]>>

\* C17: every accepted update_server_time_difference(candidate) writes the key
\* "server_time_difference" with candidate + monotonic now - system now, the
\* two clocks as the call reads them at line 115 after it has accepted the
\* candidate, whatever the throttle says, and before the throttled write of
\* "system_time"; a rejected call changes neither the stored offset, nor the
\* updated flag, nor the persistent store, nor the throttle timestamp.
C17_OffsetPersistedUnthrottled ==
  [][\A p \in Scheds :
       /\ (pc[p] = "l115" /\ ReadNowForOffset(p)) =>
            (pc'[p] = "l115t" /\ loc'[p].t = now /\ loc'[p].diff = loc[p].diff)
       /\ (pc[p] = "l115" /\ ReadSystemForOffset(p)) =>
            (pc'[p] = "l115s" /\ loc'[p].s = sys /\ loc'[p].diff = loc[p].diff)
       /\ (pc[p] = "l115t" /\ ReadSystemForOffset(p)) =>
            /\ pc'[p] = "l117"
            /\ loc[p].t <= now
            /\ loc'[p].save_diff = loc[p].diff + loc[p].t - sys
            /\ (loc[p].t = now) => loc'[p].save_diff = loc[p].diff + now - sys
       /\ (pc[p] = "l115s" /\ ReadNowForOffset(p)) =>
            /\ pc'[p] = "l117"
            /\ loc[p].s <= sys
            /\ loc'[p].save_diff = loc[p].diff + now - loc[p].s
            /\ (loc[p].s = sys) => loc'[p].save_diff = loc[p].diff + now - sys
       /\ (PersistOffset(p) /\ proc' = "running") =>
            /\ pmc'["server_time_difference"] = serialize(loc[p].save_diff)
            /\ pmc'["system_time"] = pmc["system_time"]
            /\ system_time_saved_at_' = system_time_saved_at_
            /\ pc'[p] = "l123"
       /\ (pc[p] \in {"l123", "l124", "l125", "l126", "l128"}
             /\ (ReadTime(p) \/ LoadSavedAt(p) \/ StoreSavedAt(p)
                   \/ ReadSystemTime(p) \/ WriteSystemTime(p))) =>
            /\ pmc["server_time_difference"] # EmptyStr
            /\ unserialize_ok(pmc["server_time_difference"])
            /\ pmc'["server_time_difference"] = pmc["server_time_difference"]
       /\ \A d \in ConcCands :
            (CallUpdateServer(p, d) /\ server_time_difference_was_updated_
               /\ d <= server_time_difference_) =>
              /\ pc'[p] = "idle"
              /\ UNCHANGED <<server_time_difference_, server_time_difference_was_updated_,
                             pmc, system_time_saved_at_>>]_vars

\* C17 witness: an accepted call with the largest candidate has read the monotonic clock at
\* 0 and, after time has passed, the system clock, has written "server_time_difference"
\* with candidate + the first reading - the second, and now stands before a throttle test
\* that will not let it write "system_time".
C17_Witness ==
  \E p \in Scheds :
    /\ pc[p] = "l123"
    /\ ~should_save(system_time_saved_at_, now)
    /\ server_time_difference_ = MaxCand
    /\ pmc["server_time_difference"] = serialize(MaxCand + 0 - (MaxSkew + Throttle \div 2))
    /\ now = Throttle \div 2

\* C18: when init has returned, both updated flags are false and the dns
\* offset is the default, system clock minus monotonic clock; with the key
\* "server_time_difference" absent the server offset is that default whatever
\* "system_time" holds; with "server_time_difference" present and
\* "system_time" absent the server offset is the saved offset plus the
\* default, with no backwards-clock correction.
C18_InitDefaults ==
  last = Did("init", "ok", 0) =>
    /\ ~server_time_difference_was_updated_
    /\ ~dns_time_difference_was_updated_
    /\ dns_time_difference_ = sys - now
    /\ pmc["server_time_difference"] = EmptyStr =>
         server_time_difference_ = sys - now
    /\ (pmc["server_time_difference"] # EmptyStr /\ pmc["system_time"] = EmptyStr) =>
         server_time_difference_ =
           unserialize_val(pmc["server_time_difference"]) + (sys - now)

\* C18 witness: init has returned, some time after the process started, on a store that
\* holds a saved offset and no saved system time.
C18_Witness ==
  /\ last = Did("init", "ok", 0)
  /\ pmc["server_time_difference"] # EmptyStr
  /\ pmc["system_time"] = EmptyStr
  /\ now > 0
  /\ server_time_difference_ # sys - now

\* C19: each updated flag is monotonic: once update_server_time_difference or
\* update_dns_time_difference has set it, no later operation (an update,
\* get_dns_time_difference, close_all, close_and_destroy_all, init) sets it
\* back to false.
C19_FlagsMonotonic ==
  [][/\ server_time_difference_was_updated_ => server_time_difference_was_updated_'
     /\ dns_time_difference_was_updated_ => dns_time_difference_was_updated_']_vars

\* C20: when update_server_time_difference(d) was accepted and init later runs
\* on the same store, the system clock not having been set backwards since
\* that update, the server offset init loads is d shifted by the change in
\* (system clock - monotonic clock) since the update: d itself when that
\* difference is what it was at the update.
C20_RoundTrip ==
  (last = Did("init", "ok", 0) /\ saved # <<>> /\ ~saved[1].back) =>
    server_time_difference_ = saved[1].d + ((sys - now) - saved[1].skew)

====
